---- MODULE Spec2Model ----
(***************************************************************************)
(* The discount engine of the storefront backend: the Discount collection, *)
(* its pre-save hook, and the request handlers of discountController.js.   *)
(* A handler that awaits the store twice with a decision in between        *)
(* (updateDiscountUsage: findById ... save) is two steps, so that other    *)
(* requests and the clock interleave between its read and its write.       *)
(* updateDiscount is modelled twice: as updateDiscount_find and             *)
(* updateDiscount_write, the handler's two awaits, and as updateDiscount,  *)
(* the two run back to back.  createDiscount likewise: createDiscount_find *)
(* (the checks and the lookup), the turns of generateDiscountCode and      *)
(* createDiscount_save (Discount.create), and createDiscount, all of them  *)
(* back to back.  deleteDiscount and bulkUpdateStatus are one step each:   *)
(* what they write is the request's own data.  The uploads directory is    *)
(* part of the state: multer writes the image of a request before its      *)
(* handler runs, and deleteFile removes one.                               *)
(*                                                                         *)
(* Spec is the whole system.  SpecLedger, SpecLifecycle, SpecClock,        *)
(* SpecCheckout, SpecRedeem, SpecDates, SpecOwners, SpecView, SpecStats,   *)
(* SpecCodes, SpecGenerate and SpecAssets are slices of it: the same       *)
(* actions with their inputs drawn from smaller sets, so every behaviour   *)
(* of a slice is a behaviour of Spec.  SpecGenerate adds weak fairness of  *)
(* the continuations of a creation.  Money in a response is in hundredths, *)
(* so that a percentage of a whole amount is exact.                        *)
(***************************************************************************)
EXTENDS Integers, FiniteSets, Sequences, Bags, TLC

\* ------------------------------------------------------------------ bounds
NumUsers == 2
NumCodes == 2
MaxDiscounts == 2
MaxSolo == 1
MaxTime == 2
MaxLimit == 1
MaxUsed == 2
MaxAmount == 2
MaxInFlight == 2
MaxStale == 1
MaxEdits == 2
MaxValue == 3
SomePercent == 75
MaxCap == 1
MaxFiles == 2
MaxCreates == 2

\* null: of a Number path (usageLimit, remainingUses default: null), of image
\* (default: null), and a request without a file
Null == -1
\* parseFloat(undefined), and what arithmetic on it yields
NaN == -2
\* a path that was never set on an object (req.user._id)
Undefined == -3

Users == 1..NumUsers
Codes == 1..NumCodes
Ids == 1..MaxDiscounts
Times == 0..MaxTime
Limits == {Null} \cup (1..MaxLimit)
Amounts == 0..MaxAmount
\* type enum of the schema
Types == {"percentage", "fixed"}
\* status enum of the schema
Statuses == {"active", "upcoming", "expired", "paused"}

VARIABLES
    db,        \* the Discount collection: id -> stored document
    nextId,    \* ids handed out so far + 1 (an _id is never reused)
    now,       \* the wall clock (new Date())
    inflight,  \* updateDiscountUsage requests between findById and save (a bag)
    editing,   \* updateDiscount requests between findById and findByIdAndUpdate (a bag)
    granted,   \* per id: number and amount of usage requests answered with success
    last,      \* the request answered last and its response
    creating,  \* createDiscount requests between their checks and Discount.create (a bag)
    files,     \* the file names in the discount uploads directory
    nextFile   \* uploads so far + 1 (the name of an upload is never reused)

vars == <<db, nextId, now, inflight, editing, granted, last, creating, files, nextFile>>

Max(a, b) == IF a >= b THEN a ELSE b

\* ------------------------------------------------------------------ model/Discount
\* discountSchema.pre("save"): remainingUses, then status unless paused
preSaveRemaining(doc) ==
    IF doc.usageLimit # Null THEN Max(0, doc.usageLimit - doc.usedCount) ELSE Null

preSaveStatus(doc, t) ==
    IF doc.status # "paused"
    THEN IF t < doc.startDate THEN "upcoming"
         ELSE IF t > doc.endDate THEN "expired"
         ELSE "active"
    ELSE doc.status

preSave(doc, t) ==
    [doc EXCEPT !.remainingUses = preSaveRemaining(doc),
                !.status = preSaveStatus(doc, t)]

\* discountSchema.virtual("isActive"), read at time t
isActive(doc, t) ==
    t >= doc.startDate /\ t <= doc.endDate /\ doc.status = "active"

\* a collection without the unique index
codeIndexConflict_none(store, c) == FALSE

\* the unique index on code (unique: true on the path, no owner in the key)
codeIndexConflict(store, c) == \E i \in DOMAIN store : store[i].code = c

\* Discount.findOne({code, createdBy}): the first match in _id order, 0 if none
findOneByCodeOwner(store, c, u) ==
    LET hits == {i \in DOMAIN store : store[i].code = c /\ store[i].createdBy = u}
    IN IF hits = {} THEN 0 ELSE CHOOSE i \in hits : \A j \in hits : i <= j

\* ------------------------------------------------------------------ controller helpers
compareIds(id1, id2) == id1 = id2

\* the check of the end against the clock alone
validateDates_futureOnly(startDate, endDate, t) ==
    IF endDate < t THEN "End date must be in the future"
    ELSE "ok"

validateDates(startDate, endDate, t) ==
    IF startDate > endDate THEN "End date must be after start date"
    ELSE IF endDate < t THEN "End date must be in the future"
    ELSE "ok"

\* the data of GET /stats/summary when the aggregation yields no group (lines 626-634)
NoStats ==
    [totalDiscounts |-> 0, activeDiscounts |-> 0, upcomingDiscounts |-> 0,
     expiredDiscounts |-> 0, totalUsage |-> 0, totalRevenue |-> 0, totalOrders |-> 0,
     avgUsageRate |-> 0]

\* the request (handler, requester, discount id, code, body paths) and the response;
\* amount, startDate, endDate, ids and status are request inputs, discountAmount
\* and finalAmount the payload of a successful validation (in hundredths),
\* isActive the virtual in the data of a discount that was read, file the name
\* of the request's upload (req.file) and cleaned the names the handler called
\* deleteFile with, set by the handlers that have them
Reply(op, u, id, code, fields, res) ==
    [op |-> op, user |-> u, id |-> id, code |-> code, fields |-> fields, res |-> res,
     amount |-> 0, startDate |-> Null, endDate |-> Null, ids |-> {}, status |-> "",
     discountAmount |-> Null, finalAmount |-> Null, isActive |-> FALSE,
     stats |-> NoStats, file |-> Null, cleaned |-> {}]

Init ==
    /\ db = <<>>
    /\ nextId = 1
    /\ now = 0
    /\ inflight = EmptyBag
    /\ editing = EmptyBag
    /\ granted = [i \in Ids |-> [n |-> 0, sum |-> 0]]
    /\ last = Reply("none", 0, 0, 0, {}, "none")
    /\ creating = EmptyBag
    /\ files = {}
    /\ nextFile = 1

\* ------------------------------------------------------------------ the clock
Tick ==
    /\ now < MaxTime
    /\ now' = now + 1
    /\ UNCHANGED <<db, nextId, inflight, granted, last, editing, creating, files, nextFile>>

\* ------------------------------------------------------------------ createDiscount
\* upload.single("image"): the file of a request that has one is on disk, under
\* a name of its own, before the handler runs
uploadedFile(upload) == IF upload THEN nextFile ELSE Null

uploadedDisk(upload) == IF upload THEN files \cup {nextFile} ELSE files

\* deleteFile(name): the file is unlinked when it exists; an error of unlink is
\* caught and logged, and the file stays
deleteFile(disk, name, unlinkFails) ==
    IF name = Null \/ unlinkFails THEN disk ELSE disk \ {name}

\* the document Discount.create builds (lines 135-159, schema defaults) and saves
newDiscount(u, c, startDate, endDate, usageLimit, minOrder, type, value, maxDiscount, image, t) ==
    preSave([code |-> c, createdBy |-> u,
             type |-> type, value |-> value, maxDiscount |-> maxDiscount,
             startDate |-> startDate, endDate |-> endDate, minOrder |-> minOrder,
             usageLimit |-> usageLimit, usedCount |-> 0,
             remainingUses |-> Null, status |-> "active",
             revenueGenerated |-> 0, ordersUsed |-> 0, image |-> image], t)

\* the reply to POST /discounts, with the dates of the request
CreateReply(u, id, code, startDate, endDate, res) ==
    [Reply("create", u, id, code, {}, res) EXCEPT !.startDate = startDate,
                                                   !.endDate = endDate]

\* lines 80-113: the required fields, the dates, and for a code of the body the
\* lookup by (code, owner); "ok" when the request goes on
createCheck(store, u, code, startDate, endDate, value, t) ==
    IF value = 0 THEN "Name, type, value, start date, and end date are required"
    ELSE IF validateDates(startDate, endDate, t) # "ok"
         THEN validateDates(startDate, endDate, t)
    ELSE IF code # 0 /\ findOneByCodeOwner(store, code, u) # 0
         THEN "Discount code already exists for your shop"
    ELSE "ok"

\* code 0: no code in the body, generateDiscountCode draws one the owner does not have;
\* value 0: no value in the body, or a value of zero (!value, line 81);
\* upload: the request has an image; unlinkFails: what the unlink in deleteFile does
createDiscount(u, code, startDate, endDate, usageLimit, minOrder, type, value, maxDiscount, upload, unlinkFails) ==
    LET res == createCheck(db, u, code, startDate, endDate, value, now)
        file == uploadedFile(upload)
    IN
    /\ upload => nextFile <= MaxFiles
    /\ nextFile' = IF upload THEN nextFile + 1 ELSE nextFile
    /\ IF res # "ok"
       THEN /\ last' = [CreateReply(u, 0, code, startDate, endDate, res)
                           EXCEPT !.file = file]
            /\ files' = uploadedDisk(upload)
            /\ UNCHANGED <<db, nextId>>
       ELSE \E c \in IF code # 0 THEN {code}
                     ELSE {g \in Codes : findOneByCodeOwner(db, g, u) = 0} :
            IF codeIndexConflict(db, c)
            THEN /\ last' = [CreateReply(u, 0, c, startDate, endDate,
                                         "Error creating discount")
                                EXCEPT !.file = file,
                                       !.cleaned = IF upload THEN {file} ELSE {}]
                 /\ files' = deleteFile(uploadedDisk(upload), file, unlinkFails)
                 /\ UNCHANGED <<db, nextId>>
            ELSE /\ db' = db @@ (nextId :>
                        newDiscount(u, c, startDate, endDate, usageLimit, minOrder,
                                    type, value, maxDiscount, file, now))
                 /\ nextId' = nextId + 1
                 /\ last' = [CreateReply(u, nextId, c, startDate, endDate, "ok")
                                EXCEPT !.file = file]
                 /\ files' = uploadedDisk(upload)
    /\ UNCHANGED <<now, inflight, granted, editing, creating>>

\* lines 80-113 up to the lookup: a request that passes goes on to Discount.create,
\* through generateDiscountCode when the body has no code (discountCode is 0 until
\* the loop has returned one)
createDiscount_find(u, code, startDate, endDate, usageLimit, minOrder, type, value, maxDiscount, upload) ==
    LET res == createCheck(db, u, code, startDate, endDate, value, now)
        file == uploadedFile(upload)
    IN
    /\ upload => nextFile <= MaxFiles
    /\ nextFile' = IF upload THEN nextFile + 1 ELSE nextFile
    /\ files' = uploadedDisk(upload)
    /\ IF res # "ok"
       THEN /\ last' = [CreateReply(u, 0, code, startDate, endDate, res)
                           EXCEPT !.file = file]
            /\ UNCHANGED creating
       ELSE /\ creating' = creating (+) SetToBag({
                   [user |-> u, code |-> code, discountCode |-> code,
                    startDate |-> startDate,
                    endDate |-> endDate, usageLimit |-> usageLimit,
                    minOrder |-> minOrder, type |-> type, value |-> value,
                    maxDiscount |-> maxDiscount, file |-> file]})
            /\ UNCHANGED last
    /\ UNCHANGED <<db, nextId, now, inflight, granted, editing>>

\* the 36 characters generateDiscountCode draws from
chars ==
    <<"A", "B", "C", "D", "E", "F", "G", "H", "I", "J", "K", "L", "M",
      "N", "O", "P", "Q", "R", "S", "T", "U", "V", "W", "X", "Y", "Z",
      "0", "1", "2", "3", "4", "5", "6", "7", "8", "9">>

RECURSIVE codeOfDraws(_)
\* lines 37-40: code = '' and, for each draw, code += chars.charAt(draw)
codeOfDraws(draws) ==
    IF draws = <<>> THEN <<>>
    ELSE Append(codeOfDraws(SubSeq(draws, 1, Len(draws) - 1)),
                chars[draws[Len(draws)] + 1])

\* the eight draws (Math.floor(Math.random() * chars.length) each) behind code c
\* of the model: one code per choice of the repeated index c - 1
drawsOf(c) == [i \in 1..8 |-> c - 1]

\* the text of generated code c
codeText(c) == codeOfDraws(drawsOf(c))

\* a loop that returns its first candidate
generateDiscountCode_unchecked(r, c) ==
    /\ BagIn(r, creating)
    /\ r.discountCode = 0
    /\ creating' = (creating (-) SetToBag({r}))
                       (+) SetToBag({[r EXCEPT !.discountCode = c]})
    /\ UNCHANGED <<db, nextId, now, inflight, granted, editing, last, files, nextFile>>

\* lines 36-48, one turn of the loop of request r: candidate c is drawn and looked
\* up by (code, owner); without a match the loop ends and c is returned, with one
\* it draws again
generateDiscountCode(r, c) ==
    /\ BagIn(r, creating)
    /\ r.discountCode = 0
    /\ creating' = IF findOneByCodeOwner(db, c, r.user) = 0
                   THEN (creating (-) SetToBag({r}))
                            (+) SetToBag({[r EXCEPT !.discountCode = c]})
                   ELSE creating
    /\ UNCHANGED <<db, nextId, now, inflight, granted, editing, last, files, nextFile>>

\* lines 135-194: Discount.create with the code looked up or generated; an insert
\* the unique index refuses throws, and the catch cleans up the upload
createDiscount_save(r, unlinkFails) ==
    /\ BagIn(r, creating)
    /\ r.discountCode # 0
    /\ creating' = creating (-) SetToBag({r})
    /\ IF codeIndexConflict(db, r.discountCode)
       THEN /\ last' = [CreateReply(r.user, 0, r.discountCode, r.startDate, r.endDate,
                                    "Error creating discount")
                           EXCEPT !.file = r.file,
                                  !.cleaned = IF r.file # Null THEN {r.file} ELSE {}]
            /\ files' = deleteFile(files, r.file, unlinkFails)
            /\ UNCHANGED <<db, nextId>>
       ELSE /\ db' = db @@ (nextId :>
                   newDiscount(r.user, r.discountCode, r.startDate, r.endDate, r.usageLimit,
                               r.minOrder, r.type, r.value, r.maxDiscount, r.file, now))
            /\ nextId' = nextId + 1
            /\ last' = [CreateReply(r.user, nextId, r.discountCode, r.startDate, r.endDate, "ok")
                           EXCEPT !.file = r.file]
            /\ UNCHANGED files
    /\ UNCHANGED <<now, inflight, granted, editing, nextFile>>

\* ------------------------------------------------------------------ updateDiscountUsage
\* requests for discount id that have read it and not yet saved
InFlightFor(id) ==
    LET rs == {r \in BagToSet(inflight) : r.id = id}
    IN BagCardinality([r \in rs |-> inflight[r]])

\* the checks without the one on the usage limit
usageCheck_unlimited(store, id, amount, t) ==
    IF amount = 0 THEN "Order ID and amount are required"
    ELSE IF id \notin DOMAIN store THEN "Discount not found"
    ELSE IF t < store[id].startDate \/ t > store[id].endDate
            \/ store[id].status # "active"
         THEN "Discount is not active"
    ELSE "ok"

\* the checks with the stored status standing in for the window
usageCheck_statusOnly(store, id, amount, t) ==
    IF amount = 0 THEN "Order ID and amount are required"
    ELSE IF id \notin DOMAIN store THEN "Discount not found"
    ELSE IF store[id].status # "active" THEN "Discount is not active"
    ELSE IF store[id].usageLimit # Null /\ store[id].usedCount >= store[id].usageLimit
         THEN "Discount usage limit reached"
    ELSE "ok"

\* lines 510-546: body check, findById, the window/status check and the limit check,
\* all against the document as loaded and the clock as read after the load
usageCheck(store, id, amount, t) ==
    IF amount = 0 THEN "Order ID and amount are required"
    ELSE IF id \notin DOMAIN store THEN "Discount not found"
    ELSE IF t < store[id].startDate \/ t > store[id].endDate
            \/ store[id].status # "active"
         THEN "Discount is not active"
    ELSE IF store[id].usageLimit # Null /\ store[id].usedCount >= store[id].usageLimit
         THEN "Discount usage limit reached"
    ELSE "ok"

\* the increments without the one of ordersUsed
usageIncrement_noOrders(doc, amount) ==
    [doc EXCEPT !.usedCount = @ + 1,
                !.revenueGenerated = @ + amount]

\* lines 548-551: the increments on the loaded document
usageIncrement(doc, amount) ==
    [doc EXCEPT !.usedCount = @ + 1,
                !.ordersUsed = @ + 1,
                !.revenueGenerated = @ + amount]

\* line 553, discount.save(): the pre-save hook has run on the local document; the
\* paths that differ from the loaded document are $set on the stored one
savedDoc(stored, loaded, local) ==
    [stored EXCEPT !.usedCount = local.usedCount,
                   !.ordersUsed = local.ordersUsed,
                   !.revenueGenerated = local.revenueGenerated,
                   !.remainingUses =
                       IF local.remainingUses # loaded.remainingUses
                       THEN local.remainingUses ELSE @,
                   !.status =
                       IF local.status # loaded.status THEN local.status ELSE @]

updateDiscountUsage_find(u, id, amount) ==
    LET res == usageCheck(db, id, amount, now) IN
    /\ IF res # "ok"
       THEN /\ last' = [Reply("use", u, id, 0, {}, res) EXCEPT !.amount = amount]
            /\ UNCHANGED inflight
       ELSE /\ granted[id].n + InFlightFor(id) < MaxUsed
            /\ inflight' = inflight (+) SetToBag({[user |-> u, id |-> id,
                                                  amount |-> amount, doc |-> db[id]]})
            /\ UNCHANGED last
    /\ UNCHANGED <<db, nextId, now, granted, editing, creating, files, nextFile>>

updateDiscountUsage_save(r) ==
    /\ BagIn(r, inflight)
    /\ inflight' = inflight (-) SetToBag({r})
    /\ IF r.id \notin DOMAIN db
       THEN /\ last' = Reply("use", r.user, r.id, 0, {}, "Error updating discount usage")
            /\ UNCHANGED <<db, granted>>
       ELSE LET local == preSave(usageIncrement(r.doc, r.amount), now) IN
            /\ db' = [db EXCEPT ![r.id] = savedDoc(db[r.id], r.doc, local)]
            /\ granted' = [granted EXCEPT ![r.id] =
                              [n |-> @.n + 1, sum |-> @.sum + r.amount]]
            /\ last' = Reply("use", r.user, r.id, 0, {}, "ok")
    /\ UNCHANGED <<nextId, now, editing, creating, files, nextFile>>

\* ------------------------------------------------------------------ updateDiscount
Has(body, f) == f \in DOMAIN body

\* lines 407-418: the dates are validated when the body holds one of them
updateDateError(doc, body, t) ==
    IF Has(body, "startDate") \/ Has(body, "endDate")
    THEN validateDates(IF Has(body, "startDate") THEN body["startDate"] ELSE doc.startDate,
                       IF Has(body, "endDate") THEN body["endDate"] ELSE doc.endDate, t)
    ELSE "ok"

\* lines 350, 398-405: updateData is the body, with image the name of the upload
\* when the request has one
updateData(body, file) ==
    IF file # Null THEN ("image" :> file) @@ body ELSE body

\* the unique index on code against a change of code
updateIndexConflict(store, id, body) ==
    Has(body, "code") /\ \E i \in DOMAIN store \ {id} : store[i].code = body["code"]

\* lines 420-427, findByIdAndUpdate(id, updateData): every path of the body is $set;
\* a query update runs no save hook
applyUpdate(doc, body) ==
    [f \in DOMAIN doc |-> IF Has(body, f) THEN body[f] ELSE doc[f]]

\* the reply to PUT /discounts/:id, with the upload and what deleteFile was called with
UpdateReply(u, id, body, res, file, cleaned) ==
    [Reply("update", u, id, 0, DOMAIN body, res) EXCEPT !.file = file, !.cleaned = cleaned]

\* lines 333-348: findById and the ownership check
updateLookup(store, u, id) ==
    IF id \notin DOMAIN store THEN "Discount not found"
    ELSE IF ~compareIds(store[id].createdBy, u) THEN "You do not own this discount"
    ELSE "ok"

updateDiscount(u, id, body, upload, unlinkFails) ==
    LET file == uploadedFile(upload)
        found == updateLookup(db, u, id)
        old == IF upload /\ db[id].image # Null THEN {db[id].image} ELSE {}
        disk == IF old = {} THEN uploadedDisk(upload)
                ELSE deleteFile(uploadedDisk(upload), db[id].image, unlinkFails)
    IN
    /\ upload => nextFile <= MaxFiles
    /\ nextFile' = IF upload THEN nextFile + 1 ELSE nextFile
    /\ IF found # "ok"
       THEN /\ last' = UpdateReply(u, id, body, found, file, {})
            /\ files' = uploadedDisk(upload)
            /\ UNCHANGED db
       ELSE IF updateDateError(db[id], body, now) # "ok"
       THEN /\ last' = UpdateReply(u, id, body, updateDateError(db[id], body, now),
                                   file, old)
            /\ files' = disk
            /\ UNCHANGED db
       ELSE IF updateIndexConflict(db, id, body)
       THEN /\ last' = UpdateReply(u, id, body, "Error updating discount", file,
                                   old \cup (IF upload THEN {file} ELSE {}))
            /\ files' = deleteFile(disk, file, unlinkFails)
            /\ UNCHANGED db
       ELSE /\ db' = [db EXCEPT ![id] = applyUpdate(db[id], updateData(body, file))]
            /\ last' = UpdateReply(u, id, body, "ok", file, old)
            /\ files' = disk
    /\ UNCHANGED <<nextId, now, inflight, granted, editing, creating>>

\* lines 333-418: findById, the ownership check, the old image deleted for an
\* upload, and the date check on the body's dates completed by the loaded ones; a
\* request that passes them goes on to its write (at: the time validateDates
\* read, kept for the claims; cleaned: what deleteFile was called with so far)
updateDiscount_find(u, id, body, upload, unlinkFails) ==
    LET file == uploadedFile(upload)
        found == updateLookup(db, u, id)
        old == IF upload /\ db[id].image # Null THEN {db[id].image} ELSE {}
        disk == IF old = {} THEN uploadedDisk(upload)
                ELSE deleteFile(uploadedDisk(upload), db[id].image, unlinkFails)
    IN
    /\ upload => nextFile <= MaxFiles
    /\ nextFile' = IF upload THEN nextFile + 1 ELSE nextFile
    /\ IF found # "ok"
       THEN /\ last' = UpdateReply(u, id, body, found, file, {})
            /\ files' = uploadedDisk(upload)
            /\ UNCHANGED editing
       ELSE IF updateDateError(db[id], body, now) # "ok"
       THEN /\ last' = UpdateReply(u, id, body, updateDateError(db[id], body, now),
                                   file, old)
            /\ files' = disk
            /\ UNCHANGED editing
       ELSE /\ editing' = editing (+) SetToBag({[user |-> u, id |-> id, body |-> body,
                                                 at |-> now, file |-> file,
                                                 cleaned |-> old]})
            /\ files' = disk
            /\ UNCHANGED last
    /\ UNCHANGED <<db, nextId, now, inflight, granted, creating>>

\* lines 420-455: findByIdAndUpdate on the record as stored by then; on a record
\* deleted meanwhile it yields null and the response fails in the catch, as does
\* a code the unique index refuses; the catch cleans up the upload
updateDiscount_write(r, unlinkFails) ==
    /\ BagIn(r, editing)
    /\ editing' = editing (-) SetToBag({r})
    /\ IF r.id \notin DOMAIN db \/ updateIndexConflict(db, r.id, r.body)
       THEN /\ last' = UpdateReply(r.user, r.id, r.body, "Error updating discount",
                                   r.file,
                                   r.cleaned \cup (IF r.file # Null THEN {r.file} ELSE {}))
            /\ files' = deleteFile(files, r.file, unlinkFails)
            /\ UNCHANGED db
       ELSE /\ db' = [db EXCEPT ![r.id] = applyUpdate(db[r.id], updateData(r.body, r.file))]
            /\ last' = UpdateReply(r.user, r.id, r.body, "ok", r.file, r.cleaned)
            /\ UNCHANGED files
    /\ UNCHANGED <<nextId, now, inflight, granted, creating, nextFile>>

\* ------------------------------------------------------------------ deleteDiscount
\* lines 465-488: findById, the ownership check, deleteFile of the image the
\* record has, deleteOne
deleteDiscount(u, id, unlinkFails) ==
    /\ IF id \notin DOMAIN db
       THEN /\ last' = Reply("delete", u, id, 0, {}, "Discount not found")
            /\ UNCHANGED <<db, files>>
       ELSE IF ~compareIds(db[id].createdBy, u)
       THEN /\ last' = Reply("delete", u, id, 0, {}, "You do not own this discount")
            /\ UNCHANGED <<db, files>>
       ELSE /\ db' = [i \in DOMAIN db \ {id} |-> db[i]]
            /\ files' = deleteFile(files, db[id].image, unlinkFails)
            /\ last' = [Reply("delete", u, id, 0, {}, "ok") EXCEPT
                           !.cleaned = IF db[id].image # Null THEN {db[id].image} ELSE {}]
    /\ UNCHANGED <<nextId, now, inflight, granted, editing, creating, nextFile>>

\* ------------------------------------------------------------------ getDiscountById
getDiscountById(u, id) ==
    /\ last' = IF id \notin DOMAIN db
               THEN Reply("get", u, id, 0, {}, "Discount not found")
               ELSE IF ~compareIds(db[id].createdBy, u)
               THEN Reply("get", u, id, 0, {},
                          "Access denied. You can only view your own discounts.")
               ELSE [Reply("get", u, id, 0, {}, "ok") EXCEPT
                        !.isActive = isActive(db[id], now)]
    /\ UNCHANGED <<db, nextId, now, inflight, granted, editing, creating, files, nextFile>>

\* ------------------------------------------------------------------ getDiscountStats
\* protect: req.user = {id, name, email, role}; any other path of it is undefined
reqUser(u, path) == IF path = "id" THEN u ELSE Undefined

\* { $match: { createdBy: v } } of an aggregation, which casts nothing: undefined
\* is sent as null, matching a record without createdBy (there is none, the path
\* is required), or is left out of the filter when the connection ignores
\* undefined, matching every record
matchCreatedBy(store, v, ignoreUndefined) ==
    IF v = Undefined
    THEN IF ignoreUndefined THEN DOMAIN store ELSE {}
    ELSE {i \in DOMAIN store : store[i].createdBy = v}

RECURSIVE SumOver(_, _, _)
\* { $sum: "$f" } over the matched records
SumOver(store, ids, f) ==
    IF ids = {} THEN 0
    ELSE LET i == CHOOSE j \in ids : TRUE
         IN store[i][f] + SumOver(store, ids \ {i}, f)

\* Math.round(active / total * 100) of non-negative counts, 0 without records
avgUsageRateOf(active, total) ==
    IF total > 0 THEN (200 * active + total) \div (2 * total) ELSE 0

\* lines 584-635: the group over the matched records and the rate from it
statsOf(store, ids, t) ==
    LET active == Cardinality({i \in ids : /\ store[i].startDate <= t
                                           /\ store[i].endDate >= t
                                           /\ store[i].status = "active"})
    IN IF ids = {} THEN NoStats
       ELSE [totalDiscounts |-> Cardinality(ids),
             activeDiscounts |-> active,
             upcomingDiscounts |-> Cardinality({i \in ids : store[i].status = "upcoming"}),
             expiredDiscounts |-> Cardinality({i \in ids : store[i].status = "expired"}),
             totalUsage |-> SumOver(store, ids, "usedCount"),
             totalRevenue |-> SumOver(store, ids, "revenueGenerated"),
             totalOrders |-> SumOver(store, ids, "ordersUsed"),
             avgUsageRate |-> avgUsageRateOf(active, Cardinality(ids))]

getDiscountStats(u, ignoreUndefined) ==
    /\ last' = [Reply("stats", u, 0, 0, {}, "ok") EXCEPT
                   !.stats = statsOf(db, matchCreatedBy(db, reqUser(u, "_id"),
                                                        ignoreUndefined), now)]
    /\ UNCHANGED <<db, nextId, now, inflight, granted, editing, creating, files, nextFile>>

\* ------------------------------------------------------------------ validateDiscountCode
\* the checks with the stored status looked at before the dates
validateResult_statusFirst(store, u, code, amount, t) ==
    LET id == findOneByCodeOwner(store, code, u) IN
    IF id = 0 THEN "Discount code not found"
    ELSE IF store[id].status # "active" THEN "Discount is not active"
    ELSE IF t < store[id].startDate THEN "Discount is not active yet"
    ELSE IF t > store[id].endDate THEN "Discount has expired"
    ELSE IF store[id].usageLimit # Null /\ store[id].usedCount >= store[id].usageLimit
         THEN "Discount usage limit reached"
    ELSE IF amount # 0 /\ store[id].minOrder > 0 /\ amount < store[id].minOrder
         THEN "Minimum order amount"
    ELSE "ok"

\* lines 665-725: the lookup by (code, requester) and the checks in their order;
\* amount 0 is a request without orderAmount
validateResult(store, u, code, amount, t) ==
    LET id == findOneByCodeOwner(store, code, u) IN
    IF id = 0 THEN "Discount code not found"
    ELSE IF t < store[id].startDate THEN "Discount is not active yet"
    ELSE IF t > store[id].endDate THEN "Discount has expired"
    ELSE IF store[id].status # "active" THEN "Discount is not active"
    ELSE IF store[id].usageLimit # Null /\ store[id].usedCount >= store[id].usageLimit
         THEN "Discount usage limit reached"
    ELSE IF amount # 0 /\ store[id].minOrder > 0 /\ amount < store[id].minOrder
         THEN "Minimum order amount"
    ELSE "ok"

\* lines 727-738, in hundredths: parseFloat(orderAmount) * value / 100 for a
\* percentage, cut to maxDiscount when that is set and exceeded; value otherwise.
\* Without orderAmount the product is NaN, which no comparison cuts.
discountAmountOf(doc, amount) ==
    IF doc.type = "percentage"
    THEN IF amount = 0 THEN NaN
         ELSE IF doc.maxDiscount > 0 /\ amount * doc.value > doc.maxDiscount * 100
              THEN doc.maxDiscount * 100
         ELSE amount * doc.value
    ELSE doc.value * 100

\* the subtraction without its floor at zero
finalAmountOf_signed(doc, amount) ==
    IF amount = 0 THEN NaN
    ELSE amount * 100 - discountAmountOf(doc, amount)

\* line 740, in hundredths: Math.max(0, parseFloat(orderAmount) - discountAmount)
finalAmountOf(doc, amount) ==
    IF amount = 0 THEN NaN
    ELSE Max(0, amount * 100 - discountAmountOf(doc, amount))

\* the response of GET /validate/:code (lines 672-754)
ValidateReply(u, code, amount) ==
    LET id == findOneByCodeOwner(db, code, u)
        res == validateResult(db, u, code, amount, now) IN
    [Reply("validate", u, id, code, {}, res) EXCEPT
        !.amount = amount,
        !.discountAmount = IF res = "ok" THEN discountAmountOf(db[id], amount) ELSE Null,
        !.finalAmount = IF res = "ok" THEN finalAmountOf(db[id], amount) ELSE Null]

\* a validator that books the redemption it has just approved
validateDiscountCode_counting(u, code, amount) ==
    LET id == findOneByCodeOwner(db, code, u)
        res == validateResult(db, u, code, amount, now) IN
    /\ last' = ValidateReply(u, code, amount)
    /\ db' = IF res = "ok" THEN [db EXCEPT ![id].usedCount = @ + 1] ELSE db
    /\ UNCHANGED <<nextId, now, inflight, granted, editing, creating, files, nextFile>>

validateDiscountCode(u, code, amount) ==
    /\ last' = ValidateReply(u, code, amount)
    /\ UNCHANGED <<db, nextId, now, inflight, granted, editing, creating, files, nextFile>>

\* ------------------------------------------------------------------ bulkUpdateStatus
bulkStatusAllowed == {"active", "paused", "expired"}

\* an ownership check that finds nothing
notOwned_none(store, ids, u) == {}

notOwned(store, ids, u) ==
    {i \in ids \cap DOMAIN store : ~compareIds(store[i].createdBy, u)}

\* the reply to PATCH /bulk/status, with the batch and the target status
BulkReply(u, ids, status, res) ==
    [Reply("bulk", u, 0, 0, {}, res) EXCEPT !.ids = ids, !.status = status]

bulkUpdateStatus(u, ids, status) ==
    /\ IF status \notin bulkStatusAllowed
       THEN /\ last' = BulkReply(u, ids, status, "Invalid status value")
            /\ UNCHANGED db
       ELSE IF notOwned(db, ids, u) # {}
       THEN /\ last' = BulkReply(u, ids, status, "You do not own some of these discounts")
            /\ UNCHANGED db
       ELSE /\ db' = [i \in DOMAIN db |->
                        IF i \in ids THEN [db[i] EXCEPT !.status = status] ELSE db[i]]
            /\ last' = BulkReply(u, ids, status, "ok")
    /\ UNCHANGED <<nextId, now, inflight, granted, editing, creating, files, nextFile>>

\* ------------------------------------------------------------------ request inputs
MinOrders == {0, MaxAmount}

\* value of the body: none or zero, a small one, a percentage whose amount a cap cuts
Values == {0, MaxValue, SomePercent}

\* maxDiscount of the body: none, or a cap
Caps == 0..MaxCap

OneField(f, S) == {(f :> v) : v \in S}

\* bodies of PUT /discounts/:id: none or one path, or both dates
Bodies ==
    {<<>>}
    \cup OneField("startDate", Times) \cup OneField("endDate", Times)
    \cup OneField("usageLimit", Limits)
    \cup OneField("usedCount", 0..MaxUsed)
    \cup OneField("status", Statuses)

\* bodies that edit the window and leave status alone
DateBodies == {<<>>} \cup OneField("startDate", Times) \cup OneField("endDate", Times)

BothDates == {("startDate" :> s) @@ ("endDate" :> e) : s \in Times, e \in Times}

OwnerBodies == {<<>>} \cup OneField("createdBy", Users)

\* bodies with one of the dates, or with no date at all
EditBodies ==
    OneField("startDate", Times) \cup OneField("endDate", Times)
    \cup OneField("usageLimit", 1..MaxLimit)

\* bodies that change the code
CodeBodies == OneField("code", Codes)

\* ------------------------------------------------------------------ the system
Next ==
    \/ Tick
    \/ /\ nextId <= MaxDiscounts
       /\ \E u \in Users, c \in Codes \cup {0}, s \in Times, e \in Times, l \in Limits,
             m \in MinOrders, ty \in Types, v \in Values, x \in Caps,
             upload \in BOOLEAN, unlinkFails \in BOOLEAN :
             createDiscount(u, c, s, e, l, m, ty, v, x, upload, unlinkFails)
    \/ /\ BagCardinality(creating) < MaxCreates
       /\ \E u \in Users, c \in Codes \cup {0}, s \in Times, e \in Times, l \in Limits,
             m \in MinOrders, ty \in Types, v \in Values, x \in Caps, upload \in BOOLEAN :
             createDiscount_find(u, c, s, e, l, m, ty, v, x, upload)
    \/ \E r \in BagToSet(creating), c \in Codes : generateDiscountCode(r, c)
    \/ \E r \in BagToSet(creating), unlinkFails \in BOOLEAN :
          /\ nextId <= MaxDiscounts \/ codeIndexConflict(db, r.discountCode)
          /\ createDiscount_save(r, unlinkFails)
    \/ \E u \in Users, id \in Ids, b \in Bodies \cup BothDates \cup OwnerBodies \cup CodeBodies,
          upload \in BOOLEAN, unlinkFails \in BOOLEAN :
          updateDiscount(u, id, b, upload, unlinkFails)
    \/ \E u \in Users, id \in Ids, unlinkFails \in BOOLEAN : deleteDiscount(u, id, unlinkFails)
    \/ \E u \in Users, id \in Ids : getDiscountById(u, id)
    \/ \E u \in Users, ignoreUndefined \in BOOLEAN : getDiscountStats(u, ignoreUndefined)
    \/ \E u \in Users, c \in Codes, a \in Amounts : validateDiscountCode(u, c, a)
    \/ \E u \in Users, ids \in SUBSET Ids \ {{}}, st \in Statuses :
          bulkUpdateStatus(u, ids, st)
    \/ /\ BagCardinality(inflight) < MaxInFlight
       /\ \E u \in Users, id \in Ids, a \in Amounts : updateDiscountUsage_find(u, id, a)
    \/ \E r \in BagToSet(inflight) : updateDiscountUsage_save(r)
    \/ /\ BagCardinality(editing) < MaxEdits
       /\ \E u \in Users, id \in Ids, b \in Bodies \cup BothDates \cup OwnerBodies \cup CodeBodies,
             upload \in BOOLEAN, unlinkFails \in BOOLEAN :
             updateDiscount_find(u, id, b, upload, unlinkFails)
    \/ \E r \in BagToSet(editing), unlinkFails \in BOOLEAN : updateDiscount_write(r, unlinkFails)

Spec == Init /\ [][Next]_vars

\* ------------------------------------------------------------------ slices
SoleOwner == {1}
SoleCode == {1}
SoleIds == 1..MaxSolo

\* the Usage Ledger alone: one discount, concurrent updateDiscountUsage requests
NextLedger ==
    \/ Tick
    \/ /\ nextId <= MaxSolo
       /\ \E u \in SoleOwner, c \in SoleCode, s \in Times, e \in Times, l \in Limits :
             createDiscount(u, c, s, e, l, 0, "percentage", SomePercent, 0, FALSE, FALSE)
    \/ /\ BagCardinality(inflight) < MaxInFlight
       /\ \E u \in SoleOwner, id \in SoleIds, a \in Amounts :
             updateDiscountUsage_find(u, id, a)
    \/ \E r \in BagToSet(inflight) : updateDiscountUsage_save(r)

SpecLedger == Init /\ [][NextLedger]_vars

\* one owner's discount through every handler, the clock, one request in flight
NextLifecycle ==
    \/ Tick
    \/ /\ nextId <= MaxSolo
       /\ \E u \in SoleOwner, c \in SoleCode, s \in Times, e \in Times, l \in Limits :
             createDiscount(u, c, s, e, l, 0, "percentage", SomePercent, 0, FALSE, FALSE)
    \/ \E u \in SoleOwner, id \in SoleIds, b \in Bodies : updateDiscount(u, id, b, FALSE, FALSE)
    \/ \E u \in SoleOwner, id \in SoleIds : deleteDiscount(u, id, FALSE)
    \/ \E u \in SoleOwner, c \in SoleCode, a \in {0, MaxAmount} :
          validateDiscountCode(u, c, a)
    \/ \E u \in SoleOwner, ids \in SUBSET SoleIds \ {{}}, st \in Statuses :
          bulkUpdateStatus(u, ids, st)
    \/ /\ BagCardinality(inflight) < MaxStale
       /\ \E u \in SoleOwner, id \in SoleIds, a \in {0, MaxAmount} :
             updateDiscountUsage_find(u, id, a)
    \/ \E r \in BagToSet(inflight) : updateDiscountUsage_save(r)

SpecLifecycle == Init /\ [][NextLifecycle]_vars

\* status against the clock: one owner's discount, edits that hold no status,
\* bulkUpdateStatus as the only way to set a status by hand, one request in flight
NextClock ==
    \/ Tick
    \/ /\ nextId <= MaxSolo
       /\ \E u \in SoleOwner, c \in SoleCode, s \in Times, e \in Times, l \in Limits :
             createDiscount(u, c, s, e, l, 0, "percentage", SomePercent, 0, FALSE, FALSE)
    \/ \E u \in SoleOwner, id \in SoleIds, b \in DateBodies : updateDiscount(u, id, b, FALSE, FALSE)
    \/ \E u \in SoleOwner, c \in SoleCode, a \in {0, MaxAmount} :
          validateDiscountCode(u, c, a)
    \/ \E u \in SoleOwner, ids \in SUBSET SoleIds \ {{}}, st \in bulkStatusAllowed :
          bulkUpdateStatus(u, ids, st)
    \/ /\ BagCardinality(inflight) < MaxStale
       /\ \E u \in SoleOwner, id \in SoleIds, a \in {0, MaxAmount} :
             updateDiscountUsage_find(u, id, a)
    \/ \E r \in BagToSet(inflight) : updateDiscountUsage_save(r)

SpecClock == Init /\ [][NextClock]_vars

\* the checkout: one owner's discount of any price and minimum, validated and
\* redeemed against the clock, the limit and a status set by hand
NextCheckout ==
    \/ Tick
    \/ /\ nextId <= MaxSolo
       /\ \E u \in SoleOwner, c \in SoleCode, s \in Times, e \in Times, l \in Limits,
             m \in MinOrders, ty \in Types, v \in Values, x \in Caps :
             createDiscount(u, c, s, e, l, m, ty, v, x, FALSE, FALSE)
    \/ \E u \in SoleOwner, c \in SoleCode, a \in Amounts : validateDiscountCode(u, c, a)
    \/ \E u \in SoleOwner, ids \in SUBSET SoleIds \ {{}}, st \in bulkStatusAllowed :
          bulkUpdateStatus(u, ids, st)
    \/ /\ BagCardinality(inflight) < MaxStale
       /\ \E u \in SoleOwner, id \in SoleIds, a \in {0, MaxAmount} :
             updateDiscountUsage_find(u, id, a)
    \/ \E r \in BagToSet(inflight) : updateDiscountUsage_save(r)

SpecCheckout == Init /\ [][NextCheckout]_vars

\* redemptions among an owner's discounts: one request in flight, the clock, and
\* edits of the usage limit
NextRedeem ==
    \/ Tick
    \/ /\ nextId <= MaxDiscounts
       /\ \E u \in SoleOwner, c \in Codes, e \in Times, l \in Limits :
             createDiscount(u, c, 0, e, l, 0, "percentage", SomePercent, 0, FALSE, FALSE)
    \/ \E u \in SoleOwner, id \in Ids, b \in OneField("usageLimit", Limits) :
          updateDiscount(u, id, b, FALSE, FALSE)
    \/ /\ BagCardinality(inflight) < MaxStale
       /\ \E u \in SoleOwner, id \in Ids : updateDiscountUsage_find(u, id, MaxAmount)
    \/ \E r \in BagToSet(inflight) : updateDiscountUsage_save(r)

SpecRedeem == Init /\ [][NextRedeem]_vars

\* the window of one owner's discount: creations and concurrent edits against
\* the clock
NextDates ==
    \/ Tick
    \/ /\ nextId <= MaxDiscounts
       /\ \E u \in SoleOwner, c \in SoleCode, s \in Times, e \in Times,
             v \in {0, SomePercent} :
             createDiscount(u, c, s, e, Null, 0, "percentage", v, 0, FALSE, FALSE)
    \/ /\ BagCardinality(editing) < MaxEdits
       /\ \E u \in SoleOwner, id \in SoleIds, b \in EditBodies :
             updateDiscount_find(u, id, b, FALSE, FALSE)
    \/ \E r \in BagToSet(editing) : updateDiscount_write(r, FALSE)

SpecDates == Init /\ [][NextDates]_vars

\* several owners and discounts with an open window: who may read and write what
NextOwners ==
    \/ /\ nextId <= MaxDiscounts
       /\ \E u \in Users, c \in Codes \cup {0} :
             createDiscount(u, c, 0, MaxTime, Null, 0, "percentage", SomePercent, 0, FALSE, FALSE)
    \/ \E u \in Users, id \in Ids, b \in OwnerBodies : updateDiscount(u, id, b, FALSE, FALSE)
    \/ \E u \in Users, id \in Ids : deleteDiscount(u, id, FALSE)
    \/ \E u \in Users, id \in Ids : getDiscountById(u, id)
    \/ \E u \in Users, c \in Codes : validateDiscountCode(u, c, MaxAmount)
    \/ \E u \in Users, ids \in SUBSET Ids \ {{}}, st \in bulkStatusAllowed :
          bulkUpdateStatus(u, ids, st)
    \/ /\ BagCardinality(inflight) < MaxStale
       /\ \E u \in Users, id \in Ids : updateDiscountUsage_find(u, id, MaxAmount)
    \/ \E r \in BagToSet(inflight) : updateDiscountUsage_save(r)

SpecOwners == Init /\ [][NextOwners]_vars

\* one owner's discount as its owner reads it: the clock, edits of the window
\* and statuses set by hand
NextView ==
    \/ Tick
    \/ /\ nextId <= MaxSolo
       /\ \E u \in SoleOwner, c \in SoleCode, s \in Times, e \in Times, l \in Limits :
             createDiscount(u, c, s, e, l, 0, "percentage", SomePercent, 0, FALSE, FALSE)
    \/ \E u \in SoleOwner, id \in SoleIds, b \in DateBodies : updateDiscount(u, id, b, FALSE, FALSE)
    \/ \E u \in SoleOwner, ids \in SUBSET SoleIds \ {{}}, st \in bulkStatusAllowed :
          bulkUpdateStatus(u, ids, st)
    \/ \E u \in SoleOwner, id \in SoleIds : getDiscountById(u, id)

SpecView == Init /\ [][NextView]_vars

\* the figures of several owners: discounts with an open window, redeemed,
\* switched by hand and summed up
NextStats ==
    \/ /\ nextId <= MaxDiscounts
       /\ \E u \in Users :
             createDiscount(u, 0, 0, MaxTime, Null, 0, "percentage", SomePercent, 0, FALSE, FALSE)
    \/ \E u \in Users, ids \in SUBSET Ids \ {{}}, st \in bulkStatusAllowed :
          bulkUpdateStatus(u, ids, st)
    \/ /\ BagCardinality(inflight) < MaxStale
       /\ \E u \in Users, id \in Ids : updateDiscountUsage_find(u, id, MaxAmount)
    \/ \E r \in BagToSet(inflight) : updateDiscountUsage_save(r)
    \/ \E u \in Users, ignoreUndefined \in BOOLEAN : getDiscountStats(u, ignoreUndefined)

SpecStats == Init /\ [][NextStats]_vars

\* codes among owners: concurrent creations with a code of the body or a generated
\* one, and edits of the code
NextCodes ==
    \/ /\ BagCardinality(creating) < MaxCreates
       /\ \E u \in Users, c \in Codes \cup {0} :
             createDiscount_find(u, c, 0, MaxTime, Null, 0, "percentage", SomePercent, 0,
                                 FALSE)
    \/ \E r \in BagToSet(creating), c \in Codes : generateDiscountCode(r, c)
    \/ \E r \in BagToSet(creating) :
          /\ nextId <= MaxDiscounts \/ codeIndexConflict(db, r.discountCode)
          /\ createDiscount_save(r, FALSE)
    \/ \E u \in Users, id \in Ids, b \in CodeBodies : updateDiscount(u, id, b, FALSE, FALSE)

SpecCodes == Init /\ [][NextCodes]_vars

\* the generator at work: one creation at a time, with a code of the body or
\* without, and deletions; a pending turn of the loop and a pending
\* Discount.create are run in the end
NextGenerate ==
    \/ /\ BagCardinality(creating) < MaxStale
       /\ \E u \in Users, c \in Codes \cup {0} :
             createDiscount_find(u, c, 0, MaxTime, Null, 0, "percentage", SomePercent, 0,
                                 FALSE)
    \/ \E r \in BagToSet(creating), c \in Codes : generateDiscountCode(r, c)
    \/ \E r \in BagToSet(creating) :
          /\ nextId <= MaxDiscounts \/ codeIndexConflict(db, r.discountCode)
          /\ createDiscount_save(r, FALSE)
    \/ \E u \in Users, id \in DOMAIN db : deleteDiscount(u, id, FALSE)

SpecGenerate ==
    /\ Init /\ [][NextGenerate]_vars
    /\ WF_vars(\E r \in BagToSet(creating), c \in Codes : generateDiscountCode(r, c))
    /\ WF_vars(\E r \in BagToSet(creating) : createDiscount_save(r, FALSE))

\* images: creations, edits and deletions with and without an upload, by two
\* owners after one code, with an unlink that works or fails
NextAssets ==
    \/ /\ nextId <= MaxDiscounts
       /\ \E u \in Users, c \in SoleCode, s \in Times, v \in {0, SomePercent},
             upload \in BOOLEAN, unlinkFails \in BOOLEAN :
             createDiscount(u, c, s, 1, Null, 0, "percentage", v, 0, upload, unlinkFails)
    \/ \E u \in Users, id \in Ids, b \in DateBodies,
          upload \in BOOLEAN, unlinkFails \in BOOLEAN :
          updateDiscount(u, id, b, upload, unlinkFails)
    \/ \E u \in Users, id \in Ids, unlinkFails \in BOOLEAN :
          deleteDiscount(u, id, unlinkFails)

SpecAssets == Init /\ [][NextAssets]_vars

\* ------------------------------------------------------------------ steps, as seen in the state
\* the step answered a request of handler op without going through save()
Answered(op) ==
    /\ last'.op = op /\ now' = now
    /\ inflight' = inflight /\ editing' = editing /\ creating' = creating

\* the step is the save() of an updateDiscountUsage request and its response
Saved == BagCardinality(inflight') < BagCardinality(inflight)

\* the step persisted discount id through createDiscount, updateDiscount or
\* updateDiscountUsage
Persisted(id) ==
    /\ last'.id = id
    /\ last'.res = "ok"
    /\ Answered("create") \/ Answered("update") \/ Saved

\* the status the dates call for at time t
StatusByDates(doc, t) ==
    IF t < doc.startDate THEN "upcoming"
    ELSE IF t > doc.endDate THEN "expired"
    ELSE "active"

\* the step is the write of updateDiscount request r
Written(r) == CopiesIn(r, editing') < CopiesIn(r, editing)

\* the step took a recordUsage request r past its checks
Admitted(r) == CopiesIn(r, inflight') > CopiesIn(r, inflight)

\* the step is the save of recordUsage request r
Completed(r) == CopiesIn(r, inflight') < CopiesIn(r, inflight)

\* the step rejected a recordUsage request that names an amount and a stored discount
Refused == Answered("use") /\ last'.amount # 0 /\ last'.id \in DOMAIN db

\* the step is the return of generateDiscountCode for request r, with code c
Returned(r, c) ==
    /\ r.discountCode = 0
    /\ CopiesIn(r, creating') < CopiesIn(r, creating)
    /\ CopiesIn([r EXCEPT !.discountCode = c], creating')
           > CopiesIn([r EXCEPT !.discountCode = c], creating)

\* what steps 2-5 of the validator say of stored discount id at time t
Steps2to5(id, t) == validateResult(db, db[id].createdBy, db[id].code, 0, t)

\* ------------------------------------------------------------------ claims
\* C1: no overshoot. Of the updateDiscountUsage requests on a discount with
\* usageLimit = N (fresh, usedCount 0), at most N are answered with success, in
\* every interleaving of concurrent requests.
C1_NoOvershoot ==
    \A id \in DOMAIN db :
        db[id].usageLimit # Null => granted[id].n <= db[id].usageLimit

\* C2: atomic accounting. After K requests on a discount were answered with
\* success, the stored usedCount and ordersUsed are K and the stored
\* revenueGenerated is the sum of their K order amounts.
C2_AtomicAccounting ==
    \A id \in DOMAIN db :
        /\ db[id].usedCount = granted[id].n
        /\ db[id].ordersUsed = granted[id].n
        /\ db[id].revenueGenerated = granted[id].sum

\* C3: every stored discount has remainingUses = max(0, usageLimit - usedCount)
\* when usageLimit is set and null otherwise (the store changes only through
\* the handlers' writes).
C3_RemainingUsesDerived ==
    \A id \in DOMAIN db :
        db[id].remainingUses =
            IF db[id].usageLimit = Null THEN Null
            ELSE Max(0, db[id].usageLimit - db[id].usedCount)

\* C4: a discount that createDiscount, updateDiscount or updateDiscountUsage has
\* just persisted at time now and that is not paused has the status its stored
\* dates call for at now.
C4_StatusDerivedOnWrite ==
    [][\A id \in DOMAIN db' :
          (Persisted(id) /\ db'[id].status # "paused")
              => db'[id].status = StatusByDates(db'[id], now)]_vars

\* C5: pause is sticky. A paused discount stays paused through every step that
\* is not an explicit status change (bulkUpdateStatus, or an updateDiscount whose
\* body holds status), as long as the record exists.
C5_PauseSticky ==
    [][\A id \in DOMAIN db \cap DOMAIN db' :
          (/\ db[id].status = "paused"
           /\ ~Answered("bulk")
           /\ ~(Answered("update") /\ "status" \in last'.fields))
              => db'[id].status = "paused"]_vars

\* C6: status tracks time. A discount created before its startDate (stored
\* status upcoming, never paused) is redeemable once now has reached startDate:
\* validateDiscountCode by the owner succeeds while startDate <= now <= endDate,
\* the usage limit is not reached and the minimum order is met.
C6_RedeemableInWindow ==
    [][(/\ Answered("validate")
        /\ last'.id \in DOMAIN db
        /\ db[last'.id].status = "upcoming"
        /\ db[last'.id].startDate <= now /\ now <= db[last'.id].endDate
        /\ db[last'.id].usageLimit # Null => db[last'.id].usedCount < db[last'.id].usageLimit
        /\ db[last'.id].minOrder = 0)
          => last'.res = "ok"]_vars

\* C7: ownership. A step changes or deletes a stored discount, or getDiscountById
\* returns it, only when the requester is its createdBy.
C7_OwnerOnly ==
    [][/\ \A id \in DOMAIN db :
             (id \notin DOMAIN db' \/ db'[id] # db[id]) => last'.user = db[id].createdBy
       /\ (Answered("get") /\ last'.res = "ok") => last'.user = db[last'.id].createdBy]_vars

\* C8: per-owner code uniqueness. A createDiscount with valid dates is rejected,
\* as a duplicate and persisting nothing, exactly when the same owner already
\* has a discount with that code; otherwise it succeeds, whoever else has the code.
C8_PerOwnerCodes ==
    [][(/\ Answered("create")
        /\ last'.res \notin {"Name, type, value, start date, and end date are required",
                              "End date must be after start date",
                              "End date must be in the future"}) =>
          IF \E i \in DOMAIN db :
                 db[i].createdBy = last'.user /\ db[i].code = last'.code
          THEN last'.res = "Discount code already exists for your shop" /\ db' = db
          ELSE last'.res = "ok" /\ last'.id \in DOMAIN db' \ DOMAIN db]_vars

\* C9: validateDiscountCode is read-only: whatever its outcome, no stored
\* discount changes (usedCount, ordersUsed, revenueGenerated, remainingUses and
\* status included).
C9_ValidateReadOnly ==
    [][Answered("validate") => db' = db]_vars

\* C9 witness: a successful validation of a discount that has been redeemed
C9_Witness ==
    /\ last.op = "validate" /\ last.res = "ok"
    /\ last.id \in DOMAIN db
    /\ db[last.id].usedCount > 0

\* C10: usedCount, ordersUsed and revenueGenerated of a stored discount change
\* only in the save of updateDiscountUsage, and usedCount never decreases.
C10_LedgerOnlyCounters ==
    [][\A id \in DOMAIN db \cap DOMAIN db' :
          /\ db'[id].usedCount >= db[id].usedCount
          /\ ~Saved => /\ db'[id].usedCount = db[id].usedCount
                       /\ db'[id].ordersUsed = db[id].ordersUsed
                       /\ db'[id].revenueGenerated = db[id].revenueGenerated]_vars

\* C11: createdBy is immutable. No step changes the createdBy of a stored
\* discount, whatever the request body holds.
C11_CreatedByImmutable ==
    [][\A id \in DOMAIN db \cap DOMAIN db' :
          db'[id].createdBy = db[id].createdBy]_vars

\* C12: a successful validateDiscountCode for an order amount returns, in
\* hundredths, discountAmount = orderAmount * value / 100 for a percentage, or
\* maxDiscount when maxDiscount > 0 is smaller, and discountAmount = value for a
\* fixed discount; finalAmount = orderAmount - discountAmount, or 0 when the
\* discount exceeds the order, hence never negative.
C12_AmountsAsReference ==
    [][(Answered("validate") /\ last'.res = "ok" /\ last'.amount > 0) =>
          LET doc == db[last'.id]
              order == last'.amount * 100
              share == last'.amount * doc.value
              cap == doc.maxDiscount * 100
          IN /\ doc.type = "percentage" =>
                  last'.discountAmount =
                      IF doc.maxDiscount > 0 /\ cap < share THEN cap ELSE share
             /\ doc.type = "fixed" => last'.discountAmount = doc.value * 100
             /\ last'.finalAmount >= 0
             /\ last'.finalAmount =
                  IF last'.discountAmount > order THEN 0
                  ELSE order - last'.discountAmount]_vars

\* C12 witness: a percentage that its cap has cut, validated with success
C12_Witness ==
    /\ last.op = "validate" /\ last.res = "ok"
    /\ last.id \in DOMAIN db
    /\ db[last.id].type = "percentage"
    /\ db[last.id].maxDiscount > 0
    /\ last.discountAmount = db[last.id].maxDiscount * 100
    /\ last.amount * db[last.id].value > last.discountAmount

\* C13: validateDiscountCode reports the first failing check in the order not
\* found, not yet active (now < startDate), expired (now > endDate), inactive
\* (status is not active), limit reached, below minimum: each rejection is given
\* exactly when its check fails and no earlier one does, and the below-minimum
\* rejection only when no earlier check fails.
C13_FirstFailingCheck ==
    [][Answered("validate") =>
          LET hits == {i \in DOMAIN db : /\ db[i].code = last'.code
                                         /\ db[i].createdBy = last'.user}
          IN IF hits = {} THEN last'.res = "Discount code not found"
             ELSE \E i \in hits :
                  LET early == now < db[i].startDate
                      late == now > db[i].endDate
                      off == db[i].status # "active"
                      full == /\ db[i].usageLimit # Null
                              /\ db[i].usedCount >= db[i].usageLimit
                  IN /\ last'.res # "Discount code not found"
                     /\ (last'.res = "Discount is not active yet") = early
                     /\ (last'.res = "Discount has expired") = (~early /\ late)
                     /\ (last'.res = "Discount is not active")
                            = (~early /\ ~late /\ off)
                     /\ (last'.res = "Discount usage limit reached")
                            = (~early /\ ~late /\ ~off /\ full)
                     /\ (last'.res = "Minimum order amount")
                            => (~early /\ ~late /\ ~off /\ ~full)]_vars

\* C13 witness: a discount past its end, paused or expired by hand, used up and
\* with a minimum above the order is reported as expired
C13_Witness ==
    /\ last.op = "validate" /\ last.res = "Discount has expired"
    /\ last.id \in DOMAIN db
    /\ db[last.id].status # "active"
    /\ db[last.id].usageLimit # Null
    /\ db[last.id].usedCount >= db[last.id].usageLimit
    /\ db[last.id].minOrder > last.amount

\* C14: minimum order is enforced. A validateDiscountCode on a discount with
\* minOrder > 0 succeeds only for a supplied order amount with
\* orderAmount >= minOrder; any other request that is not rejected by an earlier
\* check is rejected as below the minimum.
C14_MinimumOrderEnforced ==
    [][(/\ Answered("validate")
        /\ last'.id \in DOMAIN db
        /\ db[last'.id].minOrder > 0
        /\ last'.res \in {"ok", "Minimum order amount"}) =>
          (last'.res = "ok") =
              (last'.amount # 0 /\ last'.amount >= db[last'.id].minOrder)]_vars

C16_OneRecordOneRedemption ==
    [][\A r \in BagToSet(inflight) :
          (Completed(r) /\ r.id \in DOMAIN db /\ r.doc = db[r.id]) =>
              /\ last'.res = "ok"
              /\ DOMAIN db' = DOMAIN db
              /\ \A i \in DOMAIN db \ {r.id} : db'[i] = db[i]
              /\ db'[r.id] =
                    [db[r.id] EXCEPT
                        !.usedCount = @ + 1,
                        !.ordersUsed = @ + 1,
                        !.revenueGenerated = @ + r.amount,
                        !.remainingUses =
                            IF db[r.id].usageLimit = Null THEN Null
                            ELSE Max(0, db[r.id].usageLimit - db[r.id].usedCount - 1),
                        !.status = IF @ = "paused" THEN @
                                   ELSE StatusByDates(db[r.id], now)]]_vars

\* C16 witness: one of two stored discounts has just been redeemed once, with
\* a limit to count down from
C16_Witness ==
    /\ last.op = "use" /\ last.res = "ok"
    /\ Cardinality(DOMAIN db) > 1
    /\ last.id \in DOMAIN db
    /\ db[last.id].usageLimit # Null
    /\ db[last.id].usedCount = 1 /\ granted[last.id].n = 1

\* C17: exhaustion does not change status. When a successful recordUsage on an
\* active discount inside its window brings the stored usedCount up to the
\* stored usageLimit, the stored remainingUses becomes 0 and the status stays
\* active; a later recordUsage on it, while active and inside the window, is
\* rejected by the limit check.
C17_ExhaustionKeepsStatus ==
    [][/\ \A r \in BagToSet(inflight) :
             (/\ Completed(r) /\ last'.res = "ok"
              /\ db[r.id].status = "active"
              /\ db[r.id].startDate <= now /\ now <= db[r.id].endDate
              /\ db'[r.id].usageLimit # Null
              /\ db[r.id].usedCount < db'[r.id].usageLimit
              /\ db'[r.id].usedCount = db'[r.id].usageLimit)
                 => (db'[r.id].remainingUses = 0 /\ db'[r.id].status = "active")
       /\ (/\ Refused
           /\ db[last'.id].status = "active"
           /\ db[last'.id].startDate <= now /\ now <= db[last'.id].endDate
           /\ db[last'.id].usageLimit # Null
           /\ db[last'.id].usedCount >= db[last'.id].usageLimit)
              => last'.res = "Discount usage limit reached"]_vars

\* C18: bulkUpdateStatus is all-or-nothing on ownership. With a target status
\* among active, paused and expired: if some discount of the batch is not the
\* requester's, the request is rejected as not owned and no discount changes;
\* otherwise every stored discount of the batch gets the target status, whatever
\* its dates, and nothing else changes.
C18_BulkAllOrNothing ==
    [][(Answered("bulk") /\ last'.status \in {"active", "paused", "expired"}) =>
          IF \E i \in last'.ids \cap DOMAIN db : db[i].createdBy # last'.user
          THEN /\ last'.res = "You do not own some of these discounts"
               /\ db' = db
          ELSE /\ last'.res = "ok"
               /\ DOMAIN db' = DOMAIN db
               /\ \A i \in DOMAIN db :
                     db'[i] = IF i \in last'.ids
                              THEN [db[i] EXCEPT !.status = last'.status]
                              ELSE db[i]]_vars

\* C18 witness: a batch of an own and a foreign discount has been rejected
C18_Witness ==
    /\ last.op = "bulk" /\ last.res = "You do not own some of these discounts"
    /\ \E i \in last.ids \cap DOMAIN db : db[i].createdBy = last.user
    /\ \E i \in last.ids \cap DOMAIN db : db[i].createdBy # last.user

\* C19: a createDiscount (with its required fields) whose startDate is after
\* its endDate is rejected as an invalid date range; no record is created and
\* no stored record changes.
C19_CreateRejectsBadRange ==
    [][(/\ Answered("create")
        /\ last'.res # "Name, type, value, start date, and end date are required"
        /\ last'.startDate > last'.endDate) =>
          (last'.res = "End date must be after start date" /\ db' = db)]_vars

\* C19 witness: such a creation has been rejected while a discount is stored
C19_Witness ==
    /\ last.op = "create" /\ last.res = "End date must be after start date"
    /\ last.startDate > last.endDate
    /\ DOMAIN db # {}

\* C20: the date invariant at write time. Every stored discount has
\* startDate <= endDate, and no createDiscount or updateDiscount persists a
\* record whose endDate is before the time of the request (the time its
\* handler read the clock), whichever dates the body holds.
C20_DatesValidWhenWritten ==
    [][/\ \A id \in DOMAIN db' : db'[id].startDate <= db'[id].endDate
       /\ \A id \in DOMAIN db' \ DOMAIN db : db'[id].endDate >= now
       /\ (Answered("update") /\ last'.res = "ok") => db'[last'.id].endDate >= now
       /\ \A r \in BagToSet(editing) :
             (Written(r) /\ last'.res = "ok") => db'[r.id].endDate >= r.at]_vars

C22_StatsPerOwner ==
    [][Answered("stats") =>
          LET own == {i \in DOMAIN db : db[i].createdBy = last'.user}
              st == last'.stats
          IN /\ st.totalDiscounts = Cardinality(own)
             /\ st.totalUsage = SumOver(db, own, "usedCount")
             /\ st.totalRevenue = SumOver(db, own, "revenueGenerated")
             /\ st.totalOrders = SumOver(db, own, "ordersUsed")
             /\ st.avgUsageRate =
                   IF st.totalDiscounts = 0 THEN 0
                   ELSE (200 * st.activeDiscounts + st.totalDiscounts)
                            \div (2 * st.totalDiscounts)]_vars

\* C23: generateDiscountCode returns only a code of exactly 8 characters from
\* [A-Z0-9] that, when it is looked up, no stored discount of that owner has; a
\* candidate an existing code of the owner collides with is never returned.
C23_GeneratedCodeIsFree ==
    [][\A r \in BagToSet(creating), c \in Codes :
          Returned(r, c) =>
              /\ Len(codeText(c)) = 8
              /\ \A k \in 1..Len(codeText(c)) :
                     codeText(c)[k] \in
                        {"A", "B", "C", "D", "E", "F", "G", "H", "I", "J", "K", "L", "M",
                         "N", "O", "P", "Q", "R", "S", "T", "U", "V", "W", "X", "Y", "Z",
                         "0", "1", "2", "3", "4", "5", "6", "7", "8", "9"}
              /\ \A i \in DOMAIN db :
                     ~(db[i].code = c /\ db[i].createdBy = r.user)]_vars

\* C23 witness: a code has been generated for an owner who has a discount
\* stored, under another code
C23_Witness ==
    \E r \in BagToSet(creating) :
        /\ r.code = 0 /\ r.discountCode # 0
        /\ \E i \in DOMAIN db : db[i].createdBy = r.user /\ db[i].code # r.discountCode

\* C24: code generation is bounded. generateDiscountCode always terminates: a
\* request for which a code is being generated gets one or fails
\* (GenerationExhausted) after a capped number of colliding draws, also when
\* every candidate drawn collides with a code the owner has.
C24_GenerationEnds ==
    (\E r \in BagToSet(creating) : r.discountCode = 0)
        ~> (\A r \in BagToSet(creating) : r.discountCode # 0)

\* C25: no orphaned asset after a failed create. Whenever createDiscount ends
\* without persisting a discount (missing required fields, invalid dates,
\* duplicate code or a persistence error) and the request uploaded an image,
\* deleteFile is called with that image.
C25_FailedCreateCleansUp ==
    [][(Answered("create") /\ last'.res # "ok" /\ last'.file # Null)
          => last'.file \in last'.cleaned]_vars

\* C26: redemption only inside the time window. No validateDiscountCode
\* succeeds, and no updateDiscountUsage request passes its checks (only such a
\* request is answered with success), at a time now that the handler reads with
\* now < startDate or now > endDate, whatever the stored status is, also after
\* bulkUpdateStatus has forced the status to active.
C26_RedeemedInWindowOnly ==
    [][/\ (Answered("validate") /\ last'.res = "ok") =>
             (db[last'.id].startDate <= now /\ now <= db[last'.id].endDate)
       /\ \A r \in BagToSet(inflight') :
             Admitted(r) => (db[r.id].startDate <= now /\ now <= db[r.id].endDate)
       /\ Answered("use") => last'.res # "ok"
       /\ Saved => \E r \in BagToSet(inflight) : Completed(r)]_vars

\* C26 witness: a redemption was refused on a discount past its end whose
\* status bulkUpdateStatus had set to active
C26_Witness ==
    /\ last.op = "use" /\ last.res = "Discount is not active" /\ last.amount # 0
    /\ last.id \in DOMAIN db
    /\ db[last.id].status = "active"
    /\ now > db[last.id].endDate

\* C27: the usage cap. In every reachable state, after any sequence of
\* createDiscount, updateDiscount (edits of usageLimit included),
\* updateDiscountUsage and bulkUpdateStatus, every stored discount with
\* usageLimit set has usedCount <= usageLimit.
C27_UsedWithinLimit ==
    \A id \in DOMAIN db :
        db[id].usageLimit # Null => db[id].usedCount <= db[id].usageLimit

\* C28: while paused nothing is redeemed. Once bulkUpdateStatus has stored
\* status paused for a discount, no updateDiscountUsage on it reports success
\* and changes its counters until the status is changed again, a request that
\* read the discount before the pause and saves after it included.
C28_NothingRedeemedWhilePaused ==
    [][\A r \in BagToSet(inflight) :
          (Completed(r) /\ r.id \in DOMAIN db /\ db[r.id].status = "paused") =>
              /\ last'.res # "ok"
              /\ db'[r.id].usedCount = db[r.id].usedCount
              /\ db'[r.id].ordersUsed = db[r.id].ordersUsed
              /\ db'[r.id].revenueGenerated = db[r.id].revenueGenerated]_vars

\* C29: concurrent creation keeps codes unique. In every interleaving of
\* createDiscount requests, two by the same owner with the same code of the
\* body that both pass the lookup before either inserts included, no two
\* stored discounts of one owner share a code: of such a pair at most one is
\* persisted.
C29_OwnerCodesUnique ==
    \A i \in DOMAIN db, j \in DOMAIN db :
        (db[i].createdBy = db[j].createdBy /\ db[i].code = db[j].code) => i = j

\* C29 witness: a creation that had passed the lookup for its code was refused
\* at the insert, the owner's other creation with that code being stored
C29_Witness ==
    /\ last.op = "create" /\ last.res = "Error creating discount"
    /\ last.code # 0
    /\ \E i \in DOMAIN db : db[i].code = last.code /\ db[i].createdBy = last.user

\* C30: a rejected update has no effect. Whenever updateDiscount answers with a
\* rejection (not found, not owner, invalid dates), every stored record is
\* unchanged and the image a record references is on disk if it was before.
C30_RejectedUpdateNoEffect ==
    [][(/\ Answered("update")
        /\ last'.res \in {"Discount not found", "You do not own this discount",
                           "End date must be after start date",
                           "End date must be in the future"}) =>
          /\ db' = db
          /\ \A id \in DOMAIN db :
                 db[id].image \in files => db[id].image \in files']_vars
====
